---------------------------- MODULE Spec2Model ----------------------------
(***************************************************************************)
(* Model of the orchestration loop PersonalAssistant.run                   *)
(* (src/core/assistant.py) and of the session state it works on.           *)
(*                                                                         *)
(* Text is a sequence of one-character strings, so that strip(), the       *)
(* regular expression done_pattern and the slice response[6:-7] are        *)
(* computed character by character, as Python computes them.               *)
(***************************************************************************)
EXTENDS Naturals, Integers, Sequences, FiniteSets, TLC

(***************************************************************************)
(* Bounds of the model.                                                    *)
(***************************************************************************)
\* number of run invocations of one session explored by Spec
MaxRuns == 2
\* number of vocabulary pieces concatenated into one generated service output
MaxPieces == 4
\* number of updates the adapter dispatches
MaxUpdates == 2
\* number of service calls the dispatched updates make in all
MaxBotCalls == 4
\* number of items of an extracted-content list and of an error list
MaxItems == 2
\* number of segments a planner output is put together from
MaxSegments == 3

\* most tools handed to the planner
MaxTools == 2

\* create_event_simple invocations in a calendar session
MaxRequests == 2

\* most tokens of a text handed to the chunker
MaxTokens == 6

\* largest chunk_size
MaxChunk == 4

\* size of the space of point ids (values of hash)
MaxIds == 3

\* most merges into one knowledge item
MaxMerges == 2

\* hours of the modelled day: start_hour, end_hour range over 0..MaxHour-1
MaxHour == 3

(***************************************************************************)
(* Characters and text.                                                    *)
(***************************************************************************)
\* str.lower() on one character
Lower(c) ==
  CASE c = "A" -> "a"
    [] c = "B" -> "b"
    [] c = "C" -> "c"
    [] c = "D" -> "d"
    [] c = "E" -> "e"
    [] c = "F" -> "f"
    [] c = "G" -> "g"
    [] c = "H" -> "h"
    [] c = "I" -> "i"
    [] c = "J" -> "j"
    [] c = "K" -> "k"
    [] c = "L" -> "l"
    [] c = "M" -> "m"
    [] c = "N" -> "n"
    [] c = "O" -> "o"
    [] c = "P" -> "p"
    [] c = "Q" -> "q"
    [] c = "R" -> "r"
    [] c = "S" -> "s"
    [] c = "T" -> "t"
    [] c = "U" -> "u"
    [] c = "V" -> "v"
    [] c = "W" -> "w"
    [] c = "X" -> "x"
    [] c = "Y" -> "y"
    [] c = "Z" -> "z"
    [] OTHER -> c

\* the characters str.strip() and the regex class \s remove / match
IsSpace(c) == c \in {" ", "\n", "\t"}

RECURSIVE LStrip(_)
LStrip(s) ==
  IF s = << >> THEN s
  ELSE IF IsSpace(Head(s)) THEN LStrip(Tail(s)) ELSE s

RECURSIVE RStrip(_)
RStrip(s) ==
  IF s = << >> THEN s
  ELSE IF IsSpace(s[Len(s)]) THEN RStrip(SubSeq(s, 1, Len(s) - 1)) ELSE s

\* str.strip()
Strip(s) == RStrip(LStrip(s))

\* s[i] lower-cased, or "" past the end of s
At(s, i) == IF i >= 1 /\ i <= Len(s) THEN Lower(s[i]) ELSE ""

\* index of the first non-whitespace character of s at or after i
RECURSIVE SkipSpace(_, _)
SkipSpace(s, i) ==
  IF i <= Len(s) /\ IsSpace(s[i]) THEN SkipSpace(s, i + 1) ELSE i

\* done_pattern = re.compile(r"</?done\s*>", re.IGNORECASE) matched at index i
DoneMatchAt(s, i) ==
  /\ At(s, i) = "<"
  /\ LET j == IF At(s, i + 1) = "/" THEN i + 2 ELSE i + 1
     IN  /\ At(s, j) = "d"
         /\ At(s, j + 1) = "o"
         /\ At(s, j + 2) = "n"
         /\ At(s, j + 3) = "e"
         /\ At(s, SkipSpace(s, j + 4)) = ">"

\* done_pattern.search(response): a match anywhere in the text
\* a pattern that matches nothing: the done path is never taken
DoneSearch_never(s) == FALSE

DoneSearch(s) == \E i \in 1..Len(s) : DoneMatchAt(s, i)

\* response[6:-6]: the close wrapper's length taken one short
Slice_short(s) ==
  LET hi == IF Len(s) >= 6 THEN Len(s) - 6 ELSE 0
  IN  IF hi >= 7 THEN SubSeq(s, 7, hi) ELSE << >>

\* response[6:-7]: Python slice, both ends clamped to the text
Slice(s) ==
  LET hi == IF Len(s) >= 7 THEN Len(s) - 7 ELSE 0
  IN  IF hi >= 7 THEN SubSeq(s, 7, hi) ELSE << >>

(***************************************************************************)
(* Vocabulary of the texts the completion service and the user produce.    *)
(***************************************************************************)
\* the open wrapper "<done>"
TxtOpen ==
  <<"<", "d", "o", "n", "e", ">">>

\* the close wrapper "</done>"
TxtClose ==
  <<"<", "/", "d", "o", "n", "e", ">">>

\* the close wrapper in upper case, "</DONE>"
TxtCloseUpper ==
  <<"<", "/", "D", "O", "N", "E", ">">>

\* an open tag written with inner whitespace, "<done >"
TxtOpenSpaced ==
  <<"<", "d", "o", "n", "e", " ", ">">>

\* plain answer text, "hi"
TxtHi ==
  <<"h", "i">>

\* a line break
TxtNewline ==
  <<"\n">>

\* "delegate_to: browser_agent"
TxtDelegateBrowser ==
  <<"d", "e", "l", "e", "g", "a", "t", "e", "_", "t", "o", ":", " ", "b", "r", "o", "w", "s", "e", "r", "_", "a", "g", "e", "n", "t">>

\* "delegate_to: ghost" (no agent of that name is registered)
TxtDelegateGhost ==
  <<"d", "e", "l", "e", "g", "a", "t", "e", "_", "t", "o", ":", " ", "g", "h", "o", "s", "t">>

\* "task: go"
TxtTask ==
  <<"t", "a", "s", "k", ":", " ", "g", "o">>

\* "Final"
TxtFinal ==
  <<"F", "i", "n", "a", "l">>

\* "go"
TxtGo ==
  <<"g", "o">>

\* the open wrapper in mixed case, "<Done>"
TxtOpenMixed ==
  <<"<", "D", "o", "n", "e", ">">>

\* keys of the registry built by build_tools_and_agents
NameBrowser ==
  <<"b", "r", "o", "w", "s", "e", "r", "_", "a", "g", "e", "n", "t">>

NamePlanner ==
  <<"p", "l", "a", "n", "n", "e", "r", "_", "a", "g", "e", "n", "t">>

RegisteredAgents == {NameBrowser, NamePlanner}

\* the utterances handed to run
UserInputs == {TxtGo, TxtHi}

\* representative outputs of the completion service
ServiceOutputs ==
  { TxtHi,
    TxtNewline \o TxtHi,
    TxtOpen \o TxtFinal \o TxtClose,
    TxtHi \o TxtOpen \o TxtHi,
    TxtOpen \o TxtHi,
    TxtOpenSpaced \o TxtHi \o TxtClose,
    TxtDelegateBrowser \o TxtNewline \o TxtTask,
    TxtDelegateBrowser,
    TxtDelegateGhost \o TxtNewline \o TxtTask,
    TxtHi \o TxtNewline \o TxtDelegateBrowser,
    TxtDelegateGhost \o TxtNewline \o TxtOpen }

\* the pieces generated outputs are concatenated from
Pieces ==
  << TxtOpen, TxtOpenMixed, TxtClose, TxtCloseUpper, TxtOpenSpaced,
     TxtHi, TxtNewline, TxtDelegateBrowser >>

RECURSIVE Flatten(_)
Flatten(ps) ==
  IF ps = << >> THEN << >> ELSE Pieces[Head(ps)] \o Flatten(Tail(ps))

\* every concatenation of 1..MaxPieces pieces
GeneratedOutputs ==
  UNION { { Flatten(ps) : ps \in [1..k -> 1..Len(Pieces)] } : k \in 1..MaxPieces }

(***************************************************************************)
(* The textual grammars the properties below are stated with: the          *)
(* completion marker and the delegation directive.                         *)
(***************************************************************************)
LowerText(s) == [i \in 1..Len(s) |-> Lower(s[i])]

StartsWithCI(s, p) == Len(s) >= Len(p) /\ LowerText(SubSeq(s, 1, Len(p))) = p

EndsWithCI(s, p) ==
  Len(s) >= Len(p) /\ LowerText(SubSeq(s, Len(s) - Len(p) + 1, Len(s))) = p

KwDelegate ==
  <<"d", "e", "l", "e", "g", "a", "t", "e", "_", "t", "o", ":">>

KwTask ==
  <<"t", "a", "s", "k", ":">>

RECURSIVE FirstLine(_)
FirstLine(s) ==
  IF s = << >> \/ Head(s) = "\n" THEN << >>
  ELSE << Head(s) >> \o FirstLine(Tail(s))

HasLineBreak(s) == Len(FirstLine(s)) < Len(s)

AfterFirstLine(s) == SubSeq(s, Len(FirstLine(s)) + 2, Len(s))

RECURSIVE SplitLines(_)
SplitLines(s) ==
  IF HasLineBreak(s) THEN << FirstLine(s) >> \o SplitLines(AfterFirstLine(s))
  ELSE << s >>

\* a line of the form "delegate_to: <agent_name>"
IsDirectiveLine(l) == StartsWithCI(l, KwDelegate)

\* the agent name of a directive line: the text after the first colon, trimmed
LineAgent(l) == Strip(SubSeq(l, Len(KwDelegate) + 1, Len(l)))

\* the response's first line is a directive naming an agent of the registry
IsRegisteredDelegation(r, registry) ==
  IsDirectiveLine(FirstLine(r)) /\ LineAgent(FirstLine(r)) \in registry

\* the response's first line is a directive naming no agent of the registry
IsUnknownDelegation(r, registry) ==
  IsDirectiveLine(FirstLine(r)) /\ LineAgent(FirstLine(r)) \notin registry

\* a directive naming a registered agent stands on a line other than the first,
\* and none on the first
DirectiveOnLaterLineOnly(r, registry) ==
  /\ ~IsDirectiveLine(FirstLine(r))
  /\ \E i \in 2..Len(SplitLines(r)) :
       /\ IsDirectiveLine(SplitLines(r)[i])
       /\ LineAgent(SplitLines(r)[i]) \in registry

\* the task of a directive: the text after "task:" on the second line when
\* that is present and non-empty, the original utterance otherwise
DirectiveTask(r, original) ==
  LET ls == SplitLines(r)
      given == IF Len(ls) >= 2 /\ StartsWithCI(ls[2], KwTask)
               THEN Strip(SubSeq(ls[2], Len(KwTask) + 1, Len(ls[2])))
               ELSE << >>
  IN  IF given # << >> THEN given ELSE original

\* the trimmed response starts with <done> and ends with </done>, in any case
IsCompletionMarker(r) ==
  /\ Len(r) >= Len(TxtOpen) + Len(TxtClose)
  /\ StartsWithCI(r, TxtOpen)
  /\ EndsWithCI(r, TxtClose)

\* index of the ">" closing the tag that starts at i
TagEnd(s, i) ==
  SkipSpace(s, (IF At(s, i + 1) = "/" THEN i + 2 ELSE i + 1) + 4)

\* r without the open tag it starts with (if any) and without the close tag it
\* ends with (if any), whatever whitespace the tags hold
Unwrapped(r) ==
  LET from == IF DoneMatchAt(r, 1) /\ At(r, 2) # "/" THEN TagEnd(r, 1) + 1 ELSE 1
      ends == { i \in from..Len(r) :
                  DoneMatchAt(r, i) /\ At(r, i + 1) = "/" /\ TagEnd(r, i) = Len(r) }
      to   == IF ends = {} THEN Len(r) ELSE (CHOOSE i \in ends : TRUE) - 1
  IN  SubSeq(r, from, to)

(***************************************************************************)
(* State.                                                                  *)
(***************************************************************************)
VARIABLES
  agents,               \* self.agents: the registry's keys
  conversation_history, \* self.conversation_history
  pc,                   \* position of run: idle, call, await, done, exhausted, failed
  user_input,           \* run's argument
  prompt,               \* local of run
  response,             \* local of run
  turn,                 \* loop variable of run
  result,               \* value returned by run, << >> while none
  lastPrompt,           \* user_prompt of the latest self.agent.run call
  lastOutput,           \* result.output of the latest self.agent.run call
  runCalls,             \* self.agent.run calls made by this invocation
  calls,                \* self.agent.run calls made in the session
  runs,                 \* run invocations started in the session
  agentCalls            \* run_task calls made in the session: <<name, task>>

\* the adapter: updates dispatched to handle_message on the shared assistant
VARIABLES
  updates,              \* per update: position of its handle_message / run
  callOwner             \* per self.agent.run call of the session: its update

\* BrowserTaskAgent.run_task
VARIABLES
  browser_pc,           \* position of run_task: ready, returned, raised
  runRaises,            \* whether `await agent.run()` raises
  content,              \* history.extracted_content()
  errors,               \* history.errors()
  summary               \* value returned by run_task

\* PlannerAgent.plan
VARIABLES
  planner_pc,           \* position of plan: ready, returned
  segments,             \* how the model output was put together
  output,               \* result.output of the planner's model call
  steps,                \* value returned by plan
  factoryAgents,        \* agents dict returned by build_tools_and_agents
  plannerAgents,        \* the planner's self.agents: name -> object
  plannerTools,         \* the planner's self.tools
  docs,                 \* agent_docs, tool_docs put in the planner's prompt
  modelCalls,           \* self.agent.run calls made by the planner
  executed              \* run_task / tool function calls made by plan

\* a front end: one inbound message handled by its handler
VARIABLES
  adapter,              \* the front end: telegram, whatsapp, cli
  handler_pc,           \* position of the handler: idle, running, ended, raised
  replies               \* what the handler sent back to the user, in order

\* CalendarTool.create_event_simple against the calendar service
VARIABLES
  events,               \* the events of the calendar: <<invocation, start, end>>
  requests              \* per invocation: position, interval, returned status

\* KnowledgeBase.upsert_knowledge against the vector collection
VARIABLES
  points,               \* the collection: point id -> payload
  lastUpsert            \* what the latest upsert_knowledge did

\* SemanticChunker._fixed_size_chunking
VARIABLES
  chunk_pc,             \* position: idle, ready, returned
  tokenCount,           \* len(tokens)
  chunk_size,           \* self.chunk_size
  overlap,              \* self.overlap
  chunks                \* the chunks returned, each the token indices it holds

assistantVars ==
  << agents, conversation_history, pc, user_input, prompt, response, turn,
     result, lastPrompt, lastOutput, runCalls, calls, runs, agentCalls >>

botVars == << updates, callOwner >>

browserVars == << browser_pc, runRaises, content, errors, summary >>

plannerVars ==
  << planner_pc, segments, output, steps, factoryAgents,
     plannerAgents, plannerTools, docs, modelCalls, executed >>

frontVars == << adapter, handler_pc, replies >>

calendarVars == << events, requests >>

knowledgeVars == << points, lastUpsert >>

chunkVars == << chunk_pc, tokenCount, chunk_size, overlap, chunks >>

utilityVars == << calendarVars, knowledgeVars, chunkVars >>

vars ==
  << assistantVars, botVars, browserVars, plannerVars, frontVars, utilityVars >>

\* max_turns = 10  # Prevent infinite loops
max_turns == 10

\* the values of `for turn in range(1, max_turns+1)`
TurnRange_offbyone == 1..(max_turns + 1)

TurnRange == 1..max_turns

\* result.new_messages() of the n-th call: its request and its response
NewMessages(n) ==
  << [call |-> n, part |-> "request"], [call |-> n, part |-> "response"] >>

\* conversation_history = result.new_messages(): assignment in place of extend
StoreInteraction_replace(history, n) == NewMessages(n)

\* a _store_interaction that drops the new messages
StoreInteraction_skip(history, n) == history

\* _store_interaction: conversation_history.extend(result.new_messages())
StoreInteraction(history, n) == history \o NewMessages(n)

(***************************************************************************)
(* The run_task calls the loop body makes for a response.  The body only   *)
(* logs matches of agent_pattern; it invokes no entry of self.agents.      *)
(***************************************************************************)
\* a loop body that hands a directive found on any line to its agent
RunTaskCalls_anyline(resp, registry, original) ==
  LET ls == SplitLines(resp)
      hits == { i \in 1..Len(ls) :
                  IsDirectiveLine(ls[i]) /\ LineAgent(ls[i]) \in registry }
  IN  IF hits = {} THEN << >>
      ELSE << << LineAgent(ls[CHOOSE i \in hits : TRUE]), original >> >>

RunTaskCalls(resp, registry, original) == << >>

\* a loop body that drops the agent a directive names from the registry
AgentsAfterReply_pop(registry, resp) ==
  IF IsDirectiveLine(FirstLine(resp))
  THEN registry \ {LineAgent(FirstLine(resp))}
  ELSE registry

\* self.agents after the loop body handled resp: run never assigns to it
AgentsAfterReply(registry, resp) == registry

\* an update not yet dispatched to handle_message
PendingUpdate == [pc |-> "pending", turn |-> 0, call |-> 0, sent |-> << >>]

\* extracted_content() of a browsing session that extracted nothing: None
NoContent == [type |-> "none", text |-> << >>, items |-> << >>]

\* no update dispatched
InitBot ==
  /\ updates = [i \in 1..MaxUpdates |-> PendingUpdate]
  /\ callOwner = << >>

\* no run_task under way
InitBrowserIdle ==
  /\ browser_pc = "idle"
  /\ runRaises = FALSE
  /\ content = NoContent
  /\ errors = << >>
  /\ summary = << >>

\* a dict without entries
EmptyDict == [n \in {} |-> << >>]

\* no _docs_dict result yet
NoDocs == [agents |-> EmptyDict, tools |-> EmptyDict]

\* no plan under way
InitPlannerIdle ==
  /\ planner_pc = "idle"
  /\ segments = << >>
  /\ output = << >>
  /\ steps = << >>
  /\ factoryAgents = EmptyDict
  /\ plannerAgents = EmptyDict
  /\ plannerTools = << >>
  /\ docs = NoDocs
  /\ modelCalls = 0
  /\ executed = << >>

\* no message under way at a front end
InitFrontIdle ==
  /\ adapter = "none"
  /\ handler_pc = "idle"
  /\ replies = << >>

\* no create_event_simple under way
InitCalendarIdle ==
  /\ events = {}
  /\ requests = << >>

\* what lastUpsert holds before any upsert_knowledge
NoUpsert == [branch |-> "none", similar |-> 0, written |-> 0, before |-> 0]

\* an empty collection
InitKnowledgeEmpty ==
  /\ points = << >>
  /\ lastUpsert = NoUpsert

\* no chunking under way
InitChunkIdle ==
  /\ chunk_pc = "idle"
  /\ tokenCount = 0
  /\ chunk_size = 1
  /\ overlap = 0
  /\ chunks = << >>

\* no calendar, knowledge or chunking operation under way
InitUtilityIdle == InitCalendarIdle /\ InitKnowledgeEmpty /\ InitChunkIdle

(***************************************************************************)
(* PersonalAssistant.__init__                                              *)
(***************************************************************************)
InitAssistant ==
  /\ agents = RegisteredAgents
  /\ conversation_history = << >>
  /\ pc = "idle"
  /\ user_input = << >>
  /\ prompt = << >>
  /\ response = << >>
  /\ turn = 0
  /\ result = << >>
  /\ lastPrompt = << >>
  /\ lastOutput = << >>
  /\ runCalls = 0
  /\ calls = 0
  /\ runs = 0
  /\ agentCalls = << >>

Init ==
  /\ InitAssistant /\ InitBot /\ InitBrowserIdle /\ InitPlannerIdle
  /\ InitFrontIdle /\ InitUtilityIdle

\* entry of run(user_input): prompt = user_input; response = ""; first turn
StartRun(u, limit) ==
  /\ pc \in {"idle", "done", "exhausted", "failed"}
  /\ runs < limit
  /\ runs' = runs + 1
  /\ user_input' = u
  /\ prompt' = u
  /\ response' = << >>
  /\ turn' = 1
  /\ pc' = "call"
  /\ result' = << >>
  /\ lastPrompt' = << >>
  /\ lastOutput' = << >>
  /\ runCalls' = 0
  /\ UNCHANGED << agents, conversation_history, calls, agentCalls >>
  /\ UNCHANGED << botVars, browserVars, plannerVars,
                  frontVars, utilityVars >>

\* a call that sends user_input again in place of the fed-back prompt
CallService_userinput ==
  /\ pc = "call"
  /\ pc' = "await"
  /\ lastPrompt' = user_input
  /\ runCalls' = runCalls + 1
  /\ calls' = calls + 1
  /\ UNCHANGED << agents, conversation_history, user_input, prompt, response,
                  turn, result, lastOutput, runs, agentCalls >>
  /\ UNCHANGED << botVars, browserVars, plannerVars,
                  frontVars, utilityVars >>

\* await self.agent.run(user_prompt=prompt, message_history=...): the call is made
CallService ==
  /\ pc = "call"
  /\ pc' = "await"
  /\ lastPrompt' = prompt
  /\ runCalls' = runCalls + 1
  /\ calls' = calls + 1
  /\ UNCHANGED << agents, conversation_history, user_input, prompt, response,
                  turn, result, lastOutput, runs, agentCalls >>
  /\ UNCHANGED << botVars, browserVars, plannerVars,
                  frontVars, utilityVars >>

\* the call returns `out`; the rest of the loop body up to the next await or return
ServiceReply(out) ==
  /\ pc = "await"
  /\ conversation_history' = StoreInteraction(conversation_history, calls)
  /\ lastOutput' = out
  /\ response' = Strip(out)
  /\ agentCalls' = agentCalls \o RunTaskCalls(response', agents, user_input)
  /\ agents' = AgentsAfterReply(agents, response')
  /\ \/ /\ DoneSearch(response')
        /\ result' = Strip(Slice(response'))
        /\ pc' = "done"
        /\ UNCHANGED << prompt, turn >>
     \/ /\ ~DoneSearch(response')
        /\ prompt' = response'
        /\ turn + 1 \in TurnRange
        /\ turn' = turn + 1
        /\ pc' = "call"
        /\ UNCHANGED result
     \/ /\ ~DoneSearch(response')
        /\ prompt' = response'
        /\ turn + 1 \notin TurnRange
        /\ result' = response'
        /\ pc' = "exhausted"
        /\ UNCHANGED turn
  /\ UNCHANGED << user_input, lastPrompt, runCalls, calls, runs >>
  /\ UNCHANGED << botVars, browserVars, plannerVars,
                  frontVars, utilityVars >>

\* the call raises: nothing in run catches it, so run ends with the exception
ServiceFail_retry ==
  /\ pc = "await"
  /\ pc' = "call"
  /\ UNCHANGED << agents, conversation_history, user_input, prompt, response,
                  turn, result, lastPrompt, lastOutput, runCalls, calls, runs,
                  agentCalls >>
  /\ UNCHANGED << botVars, browserVars, plannerVars,
                  frontVars, utilityVars >>

ServiceFail ==
  /\ pc = "await"
  /\ pc' = "failed"
  /\ UNCHANGED << agents, conversation_history, user_input, prompt, response,
                  turn, result, lastPrompt, lastOutput, runCalls, calls, runs,
                  agentCalls >>
  /\ UNCHANGED << botVars, browserVars, plannerVars,
                  frontVars, utilityVars >>

\* a session: up to MaxRuns invocations, the service answering from ServiceOutputs
Next ==
  \/ \E u \in UserInputs : StartRun(u, MaxRuns)
  \/ CallService
  \/ pc = "await" /\ \E out \in ServiceOutputs : ServiceReply(out)
  \/ ServiceFail

Spec == Init /\ [][Next]_vars

\* one invocation whose first service output is any generated text
NextGrammar ==
  \/ \E u \in UserInputs : StartRun(u, 1)
  \/ CallService
  \/ pc = "await" /\ runCalls = 1 /\ \E out \in GeneratedOutputs : ServiceReply(out)
  \/ pc = "await" /\ runCalls > 1 /\ \E out \in ServiceOutputs : ServiceReply(out)

SpecGrammar == Init /\ [][NextGrammar]_vars

\* the latest service call of this invocation has been answered and handled
Handled == pc \in {"call", "done", "exhausted"} /\ runCalls >= 1

Returned == pc \in {"done", "exhausted"}

(***************************************************************************)
(* C1.  Whatever the service answers (markers, directives, plain text, in  *)
(* any order), one invocation of run makes at most max_turns = 10 service  *)
(* calls: the calls made never exceed max_turns, a further call is only    *)
(* ever prepared while fewer than max_turns have been made, and every      *)
(* answer either returns or starts the next turn, so the number of calls   *)
(* left strictly decreases until run returns.                              *)
(***************************************************************************)
C1_BoundedCalls ==
  /\ runCalls <= max_turns
  /\ pc = "call" => runCalls < max_turns /\ turn = runCalls + 1
  /\ pc = "await" => turn = runCalls
  /\ Returned => runCalls = turn

\* run has returned after its tenth call, whose answer was a directive
C1_Witness ==
  /\ pc = "exhausted"
  /\ runCalls = max_turns
  /\ IsRegisteredDelegation(response, agents)

(***************************************************************************)
(* C2.  run takes the done path if and only if the trimmed response        *)
(* starts with <done> and ends with </done> (any case); a response with a  *)
(* tag only in the middle or only at one end is fed back, not returned.    *)
(***************************************************************************)
C2_MarkerIffWrapped ==
  Handled => ((pc = "done") <=> IsCompletionMarker(Strip(lastOutput)))

(***************************************************************************)
(* C3.  Round trip: when the first service output is <done>T</done>, the   *)
(* tags in any letter case and T free of wrapper substrings, run returns   *)
(* T.strip() and has made exactly one service call.                        *)
(***************************************************************************)
OpenWrappers == {TxtOpen, TxtOpenMixed}

CloseWrappers == {TxtClose, TxtCloseUpper}

\* inner texts without wrapper substrings, of up to MaxPieces - 2 pieces
InnerPieces == { i \in 1..Len(Pieces) : ~DoneSearch(Pieces[i]) }

InnerTexts ==
  UNION { { Flatten(ps) : ps \in [1..k -> InnerPieces] } : k \in 0..(MaxPieces - 2) }

\* every <done>T</done>, with the T.strip() the round trip must give back
WrappedTexts ==
  { [text |-> o \o T \o c, inner |-> Strip(T)] :
      o \in OpenWrappers, c \in CloseWrappers, T \in InnerTexts }

C3_RoundTrip ==
  \A w \in WrappedTexts :
    (runCalls = 1 /\ pc # "await" /\ lastOutput = w.text)
      => (pc = "done" /\ result = w.inner)

\* <Done>\nhi</DONE> was the first output and run returned hi
C3_Witness ==
  /\ pc = "done"
  /\ runCalls = 1
  /\ lastOutput = TxtOpenMixed \o TxtNewline \o TxtHi \o TxtCloseUpper
  /\ result = TxtHi

(***************************************************************************)
(* C4.  On the done path the returned value is the response without the    *)
(* open tag at its start and without the close tag at its end, trimmed:    *)
(* no character of the answer is dropped and none of a tag remains, for    *)
(* every response the done check accepts.                                  *)
(***************************************************************************)
C4_ExactUnwrap ==
  pc = "done" => result = Strip(Unwrapped(Strip(lastOutput)))

(***************************************************************************)
(* C5.  Exhaustion: run returns on a response that is neither a            *)
(* completion marker nor a delegation to a registered agent only after     *)
(* exactly 10 service calls, and then returns that response unchanged.     *)
(***************************************************************************)
C5_Exhaustion ==
  ( /\ Returned
    /\ ~IsCompletionMarker(Strip(lastOutput))
    /\ ~IsRegisteredDelegation(Strip(lastOutput), agents) )
    => (runCalls = max_turns /\ result = Strip(lastOutput))

(***************************************************************************)
(* C6.  Delegation single-hop: once a response whose first line is         *)
(* delegate_to: <name>, <name> in the registry, has been handled, run has  *)
(* invoked that agent's run_task exactly once, and it makes at most one    *)
(* further service call before it returns.                                 *)
(***************************************************************************)
C6_SingleHop ==
  (Handled /\ IsRegisteredDelegation(Strip(lastOutput), agents))
    => /\ Len(agentCalls) = 1
       /\ agentCalls[1][1] = LineAgent(FirstLine(Strip(lastOutput)))
       /\ runCalls <= turn + 1

(***************************************************************************)
(* C7.  On the delegation path run returns the synthesis call's output     *)
(* verbatim: when the output of the call that follows a registered         *)
(* directive is wrapped in <done> tags, run returns it with the tags.      *)
(***************************************************************************)
C7_SynthesisVerbatim ==
  ( /\ Returned
    /\ runCalls >= 2
    /\ IsRegisteredDelegation(lastPrompt, agents)
    /\ IsCompletionMarker(lastOutput) )
    => result = lastOutput

(***************************************************************************)
(* C8.  Unknown-agent tolerance: a response whose first line is            *)
(* delegate_to: <name>, <name> not in the registry, calls no run_task and  *)
(* makes an ordinary self-feedback turn: the history holds that call's     *)
(* records and the next prompt is the directive text itself.               *)
(***************************************************************************)
C8_UnknownAgentTolerance ==
  (Handled /\ IsUnknownDelegation(Strip(lastOutput), agents))
    => /\ pc # "done"
       /\ prompt = Strip(lastOutput)
       /\ agentCalls = << >>
       /\ Len(conversation_history) >= 1
       /\ conversation_history[Len(conversation_history)].call = calls

(***************************************************************************)
(* C9.  The task handed to a delegated agent is the text after task: on    *)
(* the response's second line when present and non-empty, and the original *)
(* user_input of the invocation otherwise.                                 *)
(***************************************************************************)
C9_DelegatedTask ==
  (Handled /\ IsRegisteredDelegation(Strip(lastOutput), agents))
    => \E i \in 1..Len(agentCalls) :
         agentCalls[i][2] = DirectiveTask(Strip(lastOutput), user_input)

(***************************************************************************)
(* C10.  Only the first line is inspected for a directive: handling a      *)
(* response in which delegate_to: <registered agent> stands on a line      *)
(* other than the first makes no run_task call.                            *)
(***************************************************************************)
C10_FirstLineOnly ==
  [][ (pc = "await" /\ DirectiveOnLaterLineOnly(Strip(lastOutput'), agents))
        => agentCalls' = agentCalls ]_vars

\* hi\ndelegate_to: browser_agent has been handled as a self-feedback turn
C10_Witness ==
  /\ Handled
  /\ DirectiveOnLaterLineOnly(Strip(lastOutput), agents)
  /\ prompt = TxtHi \o TxtNewline \o TxtDelegateBrowser
  /\ agentCalls = << >>

(***************************************************************************)
(* C13.  The conversation history is append-only: over any sequence of     *)
(* run invocations on one assistant every step leaves the earlier history  *)
(* a prefix of the later one; no record is removed, replaced or reordered. *)
(***************************************************************************)
IsPrefix(a, b) == Len(a) <= Len(b) /\ SubSeq(b, 1, Len(a)) = a

C13_AppendOnly ==
  [][IsPrefix(conversation_history, conversation_history')]_vars

\* the second invocation has returned; the history holds both invocations' records
C13_Witness ==
  /\ runs = 2
  /\ Returned
  /\ Len(conversation_history) >= 4
  /\ conversation_history[1].call = 1

(***************************************************************************)
(* C15.  When a service call of an invocation fails, run ends with the     *)
(* failure: no retry and no further service or agent call is made in that  *)
(* invocation, and the failed call adds no record to the history.          *)
(***************************************************************************)
C15_FailurePropagates ==
  [][ /\ (pc = "await" /\ conversation_history' = conversation_history)
           => pc' = "failed"
      /\ pc' = "failed"
           => /\ conversation_history' = conversation_history
              /\ calls' = calls
              /\ agentCalls' = agentCalls
              /\ \A i \in 1..Len(conversation_history') :
                   conversation_history'[i].call # calls'
      /\ pc = "failed" => (runs' = runs + 1 /\ runCalls' = 0) ]_vars

\* the second call of an invocation failed; the history holds the first call only
C15_Witness ==
  /\ pc = "failed"
  /\ runCalls = 2
  /\ calls = 2
  /\ conversation_history = NewMessages(1)

(***************************************************************************)
(* C16.  The agent registry is read-only during the loop: no step of a     *)
(* run invocation adds, removes or rebinds an entry of self.agents, on the *)
(* done, the directive, the exhaustion and the failure path alike.         *)
(***************************************************************************)
C16_RegistryReadOnly ==
  [][agents' = agents]_vars

\* a directive naming browser_agent was handled and the registry still holds it
C16_Witness ==
  /\ Handled
  /\ IsRegisteredDelegation(Strip(lastOutput), agents)
  /\ agents = RegisteredAgents

(***************************************************************************)
(* The adapter: every update is dispatched to handle_message, which        *)
(* awaits run on the one assistant kept in bot_data.  run suspends only    *)
(* at `await self.agent.run`; what lies between two awaits is one step.    *)
(***************************************************************************)
\* update.effective_user: the chat user an update comes from
UserOf(i) == IF i % 2 = 1 THEN "A" ELSE "B"

\* outputs of the completion service: plain text, and a wrapped final answer
BotOutputs == { TxtHi, TxtOpen \o TxtFinal \o TxtClose }

\* self.agent.run(user_prompt=prompt, message_history=history) by update i
AwaitingCall(i, t, history) ==
  [pc |-> "await", turn |-> t, call |-> calls + 1, sent |-> history]

\* handle_message: assistant = bot_data["assistant"]; run up to its first await
HandleMessage(i) ==
  /\ updates[i].pc = "pending"
  /\ calls < MaxBotCalls
  /\ updates' = [updates EXCEPT ![i] = AwaitingCall(i, 1, conversation_history)]
  /\ calls' = calls + 1
  /\ callOwner' = Append(callOwner, i)
  /\ UNCHANGED << agents, conversation_history, pc, user_input, prompt,
                  response, turn, result, lastPrompt, lastOutput, runCalls,
                  runs, agentCalls >>
  /\ UNCHANGED << browserVars, plannerVars,
                  frontVars, utilityVars >>

\* the awaited call of update i returns `out`: run returns, or makes its next call
HandleReply(i, out) ==
  /\ updates[i].pc = "await"
  /\ conversation_history' = StoreInteraction(conversation_history, updates[i].call)
  /\ \/ /\ DoneSearch(Strip(out))
        /\ updates' = [updates EXCEPT ![i].pc = "done"]
        /\ UNCHANGED << calls, callOwner >>
     \/ /\ ~DoneSearch(Strip(out))
        /\ updates[i].turn + 1 \in TurnRange
        /\ calls < MaxBotCalls
        /\ updates' = [updates EXCEPT
                         ![i] = AwaitingCall(i, updates[i].turn + 1,
                                             conversation_history')]
        /\ calls' = calls + 1
        /\ callOwner' = Append(callOwner, i)
     \/ /\ ~DoneSearch(Strip(out))
        /\ updates[i].turn + 1 \notin TurnRange
        /\ updates' = [updates EXCEPT ![i].pc = "exhausted"]
        /\ UNCHANGED << calls, callOwner >>
  /\ UNCHANGED << agents, pc, user_input, prompt, response, turn, result,
                  lastPrompt, lastOutput, runCalls, runs, agentCalls >>
  /\ UNCHANGED << browserVars, plannerVars,
                  frontVars, utilityVars >>

NextBot ==
  \/ \E i \in 1..MaxUpdates : HandleMessage(i)
  \/ \E i \in 1..MaxUpdates : \E out \in BotOutputs : HandleReply(i, out)

SpecBot == Init /\ [][NextBot]_vars

\* the records of calls 1..n, in call order
RECURSIVE RecordsUpTo(_)
RecordsUpTo(n) == IF n <= 0 THEN << >> ELSE RecordsUpTo(n - 1) \o NewMessages(n)

(***************************************************************************)
(* C11.  The conversation history is never read or extended by more than   *)
(* one in-flight service call: while one call on the assistant is awaited, *)
(* no second call on the same assistant has started.                       *)
(***************************************************************************)
C11_OneCallInFlight ==
  Cardinality({ i \in 1..MaxUpdates : updates[i].pc = "await" }) <= 1

(***************************************************************************)
(* C12.  Session isolation: the history passed to the service while        *)
(* answering one chat user holds no record produced while answering        *)
(* another chat user (stated for the calls made while no other update is   *)
(* in flight, so that it is about sharing and not about interleaving).     *)
(***************************************************************************)
C12_SessionIsolation ==
  \A i \in 1..MaxUpdates :
    (/\ updates[i].pc = "await"
     /\ \A j \in 1..MaxUpdates \ {i} : updates[j].pc # "await")
      => \A k \in 1..Len(updates[i].sent) :
           UserOf(callOwner[updates[i].sent[k].call]) = UserOf(i)

(***************************************************************************)
(* C14.  The history passed to the k-th service call of a session is the   *)
(* concatenation, in call order, of the records of calls 1..k-1.           *)
(***************************************************************************)
C14_HistoryInCallOrder ==
  \A i \in 1..MaxUpdates :
    updates[i].pc = "await"
      => updates[i].sent = RecordsUpTo(updates[i].call - 1)

(***************************************************************************)
(* BrowserTaskAgent.run_task.  The browsing session is a library call: its *)
(* outcome (raising, or a trace with extracted content and per-step error  *)
(* entries) is any value of the shapes below.                              *)
(***************************************************************************)
TxtApology ==
  << "C", "o", "u", "l", "d", "n", "'", "t", " ", "e", "x", "t", "r", "a",
     "c", "t", " ", "i", "n", "f", "o", "r", "m", "a", "t", "i", "o", "n",
     " ", "f", "r", "o", "m", " ", "t", "h", "e", " ", "b", "r", "o", "w",
     "s", "i", "n", "g", " ", "s", "e", "s", "s", "i", "o", "n", "." >>

TxtFallback ==
  << "N", "o", " ", "u", "s", "e", "f", "u", "l", " ", "i", "n", "f", "o",
     "r", "m", "a", "t", "i", "o", "n", " ", "c", "o", "u", "l", "d", " ",
     "b", "e", " ", "e", "x", "t", "r", "a", "c", "t", "e", "d", " ", "f",
     "r", "o", "m", " ", "t", "h", "e", " ", "b", "r", "o", "w", "s", "i",
     "n", "g", " ", "s", "e", "s", "s", "i", "o", "n", "." >>

TxtNone == << "N", "o", "n", "e" >>

\* a Python value that is None or a string
PyNone == [none |-> TRUE, text |-> << >>]
PyStr(t) == [none |-> FALSE, text |-> t]

\* bool(v) and str(v) of such a value
Truthy(v) == ~v.none /\ v.text # << >>
Str(v) == IF v.none THEN TxtNone ELSE v.text

\* sep.join(parts)
RECURSIVE Join(_, _)
Join(parts, sep) ==
  IF parts = << >> THEN << >>
  ELSE IF Len(parts) = 1 THEN parts[1]
  ELSE parts[1] \o sep \o Join(Tail(parts), sep)

\* [str(x) for x in items if x]
RECURSIVE StrOfTruthy(_)
StrOfTruthy(items) ==
  IF items = << >> THEN << >>
  ELSE IF Truthy(Head(items))
       THEN << Str(Head(items)) >> \o StrOfTruthy(Tail(items))
       ELSE StrOfTruthy(Tail(items))

\* sequences over S of length at most n
SeqUpTo(S, n) == UNION { [1..k -> S] : k \in 0..n }

ContentItems == { PyNone, PyStr(<< >>), PyStr(<< "a" >>), PyStr(<< "b" >>) }
ErrorItems == { PyNone, PyStr(<< "e" >>) }

\* history.extracted_content(): None, a string, or a list
ContentValues ==
  { NoContent }
  \cup { [type |-> "str", text |-> t, items |-> << >>] : t \in { << >>, << "a" >> } }
  \cup { [type |-> "list", text |-> << >>, items |-> its] :
           its \in SeqUpTo(ContentItems, MaxItems) }

\* history.errors(): one entry per step, None for a step without error
ErrorValues == SeqUpTo(ErrorItems, MaxItems)

\* `if content:`
ContentTruthy(c) ==
  CASE c.type = "none" -> FALSE
    [] c.type = "str" -> c.text # << >>
    [] OTHER -> c.items # << >>

\* "\n".join(str(c) for c in content if c)  /  str(content)
ContentText(c) ==
  IF c.type = "list" THEN Join(StrOfTruthy(c.items), TxtNewline) ELSE c.text

\* `if errors:`
ErrorsPresent(errs) == errs # << >>

\* summary_parts after the three ifs
SummaryParts(c, errs) ==
  LET withContent == IF ContentTruthy(c) THEN << ContentText(c) >> ELSE << >>
      withErrors == IF ErrorsPresent(errs)
                    THEN Append(withContent, TxtApology)
                    ELSE withContent
  IN  IF withErrors = << >> THEN << TxtFallback >> ELSE withErrors

InitBrowserTask ==
  /\ browser_pc = "ready"
  /\ runRaises \in BOOLEAN
  /\ content \in ContentValues
  /\ errors \in ErrorValues
  /\ summary = << >>

\* run_task(task): await agent.run() raises, or the summary is composed
run_task ==
  /\ browser_pc = "ready"
  /\ IF runRaises
     THEN /\ browser_pc' = "raised"
          /\ summary' = summary
     ELSE /\ browser_pc' = "returned"
          /\ summary' = Join(SummaryParts(content, errors), TxtNewline)
  /\ UNCHANGED << runRaises, content, errors >>
  /\ UNCHANGED << assistantVars, botVars, plannerVars,
                  frontVars, utilityVars >>

NextBrowser == run_task

InitBrowser ==
  /\ InitAssistant /\ InitBot /\ InitPlannerIdle /\ InitBrowserTask
  /\ InitFrontIdle /\ InitUtilityIdle

SpecBrowser == InitBrowser /\ [][NextBrowser]_vars

EndsWith(s, suffix) ==
  Len(suffix) <= Len(s) /\ SubSeq(s, Len(s) - Len(suffix) + 1, Len(s)) = suffix

(***************************************************************************)
(* C17.  run_task returns a non-empty string: exactly the fallback         *)
(* sentence when the run produced no content and no errors, and a          *)
(* non-empty string for every other content, a list of empty items         *)
(* included.                                                               *)
(***************************************************************************)
C17_NonEmptySummary ==
  browser_pc = "returned"
    => /\ summary # << >>
       /\ (~ContentTruthy(content) /\ errors = << >>) => summary = TxtFallback

(***************************************************************************)
(* C18.  No outcome of the browsing session, the run raising included,     *)
(* leaves run_task by an exception.                                        *)
(***************************************************************************)
C18_NeverRaises == browser_pc # "raised"

(***************************************************************************)
(* C19.  The summary starts with the extracted content when there is       *)
(* content, and ends with the apology sentence if and only if some entry   *)
(* of the error trace is an error (entries that are None do not count).    *)
(***************************************************************************)
C19_ApologyIffError ==
  browser_pc = "returned"
    => /\ ContentTruthy(content) => IsPrefix(ContentText(content), summary)
       /\ EndsWith(summary, TxtApology)
            <=> \E k \in 1..Len(errors) : Truthy(errors[k])

(***************************************************************************)
(* PlannerAgent.plan.  The model output is built from segments: a text     *)
(* wrapped in <step>...</step>, or a text left bare; the texts hold no     *)
(* tag.  plan scans the output as re.findall does.                         *)
(***************************************************************************)
TagStepOpen == << "<", "s", "t", "e", "p", ">" >>
TagStepClose == << "<", "/", "s", "t", "e", "p", ">" >>

TxtUnable ==
  << "U", "n", "a", "b", "l", "e", " ", "t", "o", " ", "g", "e", "n", "e",
     "r", "a", "t", "e", " ", "a", " ", "p", "l", "a", "n", " ", "f", "o",
     "r", " ", "t", "h", "i", "s", " ", "o", "b", "j", "e", "c", "t", "i",
     "v", "e", "." >>

TxtA == << "A" >>
TxtSpaceB == << " ", "B" >>
TxtTwoLines == << "A", "\n", "B" >>

SegmentTexts == { << >>, << " " >>, TxtA, TxtSpaceB, TxtTwoLines, TxtUnable }
Segments == [kind : {"step", "text"}, text : SegmentTexts]

\* result.output for a sequence of segments
RECURSIVE Render(_)
Render(segs) ==
  IF segs = << >> THEN << >>
  ELSE (IF Head(segs).kind = "step"
        THEN TagStepOpen \o Head(segs).text \o TagStepClose
        ELSE Head(segs).text) \o Render(Tail(segs))

\* the literal `lit` stands in s at position i (case-sensitive)
LitAt(s, lit, i) ==
  /\ i >= 1
  /\ i + Len(lit) - 1 <= Len(s)
  /\ SubSeq(s, i, i + Len(lit) - 1) = lit

\* the positions >= i where `lit` stands
LitPositions(s, lit, i) ==
  { k \in i..(Len(s) - Len(lit) + 1) : LitAt(s, lit, k) }

\* the first position >= i where `lit` stands, 0 when there is none
FindLit(s, lit, i) ==
  LET hits == LitPositions(s, lit, i)
  IN  IF hits = {} THEN 0
      ELSE CHOOSE k \in hits : \A m \in hits : k <= m

\* the last position >= i where `lit` stands, 0 when there is none
FindLit_last(s, lit, i) ==
  LET hits == LitPositions(s, lit, i)
  IN  IF hits = {} THEN 0
      ELSE CHOOSE k \in hits : \A m \in hits : k >= m

\* where (.*?) ends: the close tag a match starting before j runs up to
CloseFrom_greedy(s, j) == FindLit_last(s, TagStepClose, j)

CloseFrom(s, j) == FindLit(s, TagStepClose, j)

\* re.findall(r'<step>(.*?)</step>', s, re.DOTALL), scanning from position i
RECURSIVE FindAllFrom(_, _)
FindAllFrom(s, i) ==
  LET open == FindLit(s, TagStepOpen, i)
      close == IF open = 0 THEN 0 ELSE CloseFrom(s, open + Len(TagStepOpen))
  IN  IF open = 0 \/ close = 0 THEN << >>
      ELSE << SubSeq(s, open + Len(TagStepOpen), close - 1) >>
             \o FindAllFrom(s, close + Len(TagStepClose))

\* [step.strip() for step in steps if step.strip()]
RECURSIVE StripNonEmpty(_)
StripNonEmpty(found) ==
  IF found = << >> THEN << >>
  ELSE IF Strip(Head(found)) # << >>
       THEN << Strip(Head(found)) >> \o StripNonEmpty(Tail(found))
       ELSE StripNonEmpty(Tail(found))

\* the list plan returns for the output s
PlanSteps(s) == StripNonEmpty(FindAllFrom(s, 1))

\* "No documentation available."
TxtNoDoc ==
  << "N", "o", " ", "d", "o", "c", "u", "m", "e", "n", "t", "a", "t", "i", "o",
     "n", " ", "a", "v", "a", "i", "l", "a", "b", "l", "e", "." >>

TxtDoc == << "d" >>
TxtDocPadded == << " ", "d" >>
TxtObj == << "o" >>
NameTool == << "t" >>

\* an agent or a tool as _docs_dict sees it: its name, its declared
\* description (class __doc__ / description attribute, None when there is
\* none) and its str()
DeclaredDocs == { PyNone, PyStr(<< >>), PyStr(TxtDoc), PyStr(TxtDocPadded) }
StrValues == { << >>, TxtObj }
AgentObjects == [doc : DeclaredDocs, str : StrValues]
ToolObjects == [name : {NameTool}, doc : DeclaredDocs, str : StrValues]

\* BrowserTaskAgent(): its class has a docstring
BrowserObject == [doc |-> PyStr(TxtDoc), str |-> TxtObj]
\* PlannerAgent(...): its class has a docstring
PlannerObject == [doc |-> PyStr(TxtDocPadded), str |-> TxtObj]

\* doc = declared or str(obj); doc.strip() if doc else "No documentation available."
Describe(declared, text) ==
  LET doc == IF Truthy(declared) THEN declared.text ELSE text
  IN  IF doc # << >> THEN Strip(doc) ELSE TxtNoDoc

\* agent_docs
AgentDocs(a) == [n \in DOMAIN a |-> Describe(a[n].doc, a[n].str)]

\* tool_docs: a later tool of the same name overwrites the earlier entry
ToolDocs(t) ==
  [n \in { t[i].name : i \in 1..Len(t) } |->
     LET last == CHOOSE i \in 1..Len(t) :
                   /\ t[i].name = n
                   /\ \A j \in (i + 1)..Len(t) : t[j].name # n
     IN  Describe(t[last].doc, t[last].str)]

\* _docs_dict(agents, tools)
DocsDict(a, t) == [agents |-> AgentDocs(a), tools |-> ToolDocs(t)]

\* a plan that hands every step to every agent it knows
PlanExecution_run(stepList, a, t) ==
  IF stepList = << >> \/ DOMAIN a = {} THEN << >>
  ELSE << << CHOOSE n \in DOMAIN a : TRUE, stepList[1] >> >>

\* the run_task and tool function calls plan makes for its steps: none
PlanExecution(stepList, a, t) == << >>

\* a view that keeps every entry of the registry
PlannerView_all(reg) == reg

\* {k: v for k, v in agents.items() if k != "planner_agent"}
PlannerView(reg) == [n \in DOMAIN reg \ {NamePlanner} |-> reg[n]]

\* the agents dict literal of build_tools_and_agents
BuiltRegistry ==
  [n \in {NameBrowser, NamePlanner} |->
     IF n = NameBrowser THEN BrowserObject ELSE PlannerObject]

\* the tools gathered by build_tools_and_agents in a representative build
BuiltTools == << [name |-> NameTool, doc |-> PyStr(TxtDoc), str |-> TxtObj] >>

InitPlannerTask ==
  /\ planner_pc = "ready"
  /\ segments \in SeqUpTo(Segments, MaxSegments)
  /\ output = Render(segments)
  /\ steps = << >>
  /\ factoryAgents = BuiltRegistry
  /\ plannerAgents = PlannerView(BuiltRegistry)
  /\ plannerTools = BuiltTools
  /\ docs = NoDocs
  /\ modelCalls = 0
  /\ executed = << >>

\* plan(objective): the awaited agent.run returned result.output
plan ==
  /\ planner_pc = "ready"
  /\ planner_pc' = "returned"
  /\ docs' = DocsDict(plannerAgents, plannerTools)
  /\ modelCalls' = modelCalls + 1
  /\ steps' = PlanSteps(output)
  /\ executed' = executed \o PlanExecution(steps', plannerAgents, plannerTools)
  /\ UNCHANGED << segments, output, factoryAgents, plannerAgents,
                  plannerTools >>
  /\ UNCHANGED << assistantVars, botVars, browserVars,
                  frontVars, utilityVars >>

\* plan(objective): the awaited agent.run raised
plan_raises ==
  /\ planner_pc = "ready"
  /\ planner_pc' = "raised"
  /\ docs' = DocsDict(plannerAgents, plannerTools)
  /\ modelCalls' = modelCalls + 1
  /\ UNCHANGED << segments, output, steps, factoryAgents, plannerAgents,
                  plannerTools, executed >>
  /\ UNCHANGED << assistantVars, botVars, browserVars,
                  frontVars, utilityVars >>

NextPlanner ==
  \/ plan
  \/ plan_raises

InitPlanner ==
  /\ InitAssistant /\ InitBot /\ InitBrowserIdle /\ InitPlannerTask
  /\ InitFrontIdle /\ InitUtilityIdle

SpecPlanner == InitPlanner /\ [][NextPlanner]_vars

\* the trimmed, non-empty texts of the step segments, in order
RECURSIVE StepTexts(_)
StepTexts(segs) ==
  IF segs = << >> THEN << >>
  ELSE IF Head(segs).kind = "step" /\ \E k \in 1..Len(Head(segs).text) :
                                         ~IsSpace(Head(segs).text[k])
       THEN << Strip(Head(segs).text) >> \o StepTexts(Tail(segs))
       ELSE StepTexts(Tail(segs))

Contains(s, sub) == \E i \in 1..Len(s) : LitAt(s, sub, i)

KwUnable == << "u", "n", "a", "b", "l", "e" >>

(***************************************************************************)
(* C20.  plan returns the texts between <step> and </step>, in document    *)
(* order, each trimmed, the whitespace-only ones dropped; an output        *)
(* without step tags gives the empty list; the output                      *)
(* <step>Unable to generate a plan for this objective.</step> gives one    *)
(* element whose lower-case form contains "unable".                        *)
(***************************************************************************)
C20_PlanSteps ==
  planner_pc = "returned"
    => /\ steps = StepTexts(segments)
       /\ (\A k \in 1..Len(segments) : segments[k].kind = "text")
            => steps = << >>
       /\ output = TagStepOpen \o TxtUnable \o TagStepClose
            => /\ Len(steps) = 1
               /\ Contains(LowerText(steps[1]), KwUnable)

C20_Witness ==
  /\ planner_pc = "returned"
  /\ output = TagStepOpen \o TxtA \o TagStepClose
                \o TagStepOpen \o TxtSpaceB \o TagStepClose
  /\ steps = << TxtA, << "B" >> >>

(***************************************************************************)
(* C23.  Prompt chaining: the first service call of an invocation is made  *)
(* with user_input as its prompt, and every later call of the invocation   *)
(* with the trimmed output of the call before it.                          *)
(***************************************************************************)
C23_PromptChaining ==
  pc = "await"
    => lastPrompt = IF runCalls = 1 THEN user_input
                    ELSE RStrip(LStrip(lastOutput))

C23_Witness ==
  /\ pc = "await"
  /\ runCalls = 2
  /\ user_input = TxtGo
  /\ lastOutput = TxtNewline \o TxtHi
  /\ lastPrompt = TxtHi

\* the records of the calls of the current invocation
InvocationCalls == (calls - runCalls + 1)..calls

RecordsOf(n) ==
  { i \in 1..Len(conversation_history) : conversation_history[i].call = n }

(***************************************************************************)
(* C24.  The done path is terminal: when the output of a call is a         *)
(* completion marker, run has returned right after that call; the latest   *)
(* record of the history is the one of that call, and the invocation has   *)
(* made no call since.                                                     *)
(***************************************************************************)
C24_DoneIsTerminal ==
  (runCalls >= 1 /\ IsCompletionMarker(RStrip(LStrip(lastOutput))))
    => /\ pc = "done"
       /\ runCalls \in TurnRange
       /\ conversation_history # << >>
       /\ conversation_history[Len(conversation_history)].call = calls
       /\ \A i \in 1..Len(conversation_history) :
            conversation_history[i].call <= calls

C24_Witness ==
  /\ pc = "done"
  /\ runCalls = 2
  /\ calls = 2
  /\ lastOutput = TxtOpen \o TxtFinal \o TxtClose
  /\ conversation_history = NewMessages(1) \o NewMessages(2)

(***************************************************************************)
(* C25.  One turn is one service call and one history extension: the       *)
(* turn number is the number of calls made, every call of the invocation   *)
(* that returned has exactly one set of records in the history, a call     *)
(* still awaited or failed has none, and so the records of a call are      *)
(* stored before the next call starts.                                     *)
(***************************************************************************)
C25_OneExtensionPerCall ==
  /\ pc = "await" => turn = runCalls
  /\ \A n \in InvocationCalls :
       Cardinality(RecordsOf(n)) =
         IF n = calls /\ pc \in {"await", "failed"} THEN 0
         ELSE Len(NewMessages(n))
  /\ pc \in {"done", "exhausted", "failed"}
       => Len(conversation_history) =
            Len(NewMessages(1))
              * Cardinality({ n \in 1..calls :
                                RecordsOf(n) # {} })

C25_Witness ==
  /\ pc = "failed"
  /\ runCalls = 3
  /\ runs = 1
  /\ Len(conversation_history) = 4

(***************************************************************************)
(* The planner from its construction on: it is built either by             *)
(* build_tools_and_agents or directly by PlannerAgent(model, agents,       *)
(* tools), with any agents and tools; then plan is called.                 *)
(***************************************************************************)
\* dicts of agents a caller can hand to PlannerAgent
AgentDicts ==
  UNION { [names -> AgentObjects] : names \in SUBSET {NameBrowser} }

InitPlannerUnbuilt ==
  /\ planner_pc = "unbuilt"
  /\ segments \in SeqUpTo(Segments, 1)
  /\ output = Render(segments)
  /\ steps = << >>
  /\ factoryAgents = EmptyDict
  /\ plannerAgents = EmptyDict
  /\ plannerTools \in SeqUpTo(ToolObjects, MaxTools)
  /\ docs = NoDocs
  /\ modelCalls = 0
  /\ executed = << >>

InitSetup ==
  /\ InitAssistant /\ InitBot /\ InitBrowserIdle /\ InitPlannerUnbuilt
  /\ InitFrontIdle /\ InitUtilityIdle

\* build_tools_and_agents(): the planner is made with agents={} and then
\* given its view of the registry
build_tools_and_agents ==
  /\ planner_pc = "unbuilt"
  /\ planner_pc' = "ready"
  /\ factoryAgents' = BuiltRegistry
  /\ plannerAgents' = PlannerView(factoryAgents')
  /\ UNCHANGED << segments, output, steps, plannerTools, docs, modelCalls,
                  executed >>
  /\ UNCHANGED << assistantVars, botVars, browserVars,
                  frontVars, utilityVars >>

\* PlannerAgent(model, agents=a, tools=...): self.agents = agents or {}
PlannerAgentInit(a) ==
  /\ planner_pc = "unbuilt"
  /\ planner_pc' = "ready"
  /\ plannerAgents' = a
  /\ UNCHANGED << segments, output, steps, factoryAgents, plannerTools, docs,
                  modelCalls, executed >>
  /\ UNCHANGED << assistantVars, botVars, browserVars,
                  frontVars, utilityVars >>

NextSetup ==
  \/ build_tools_and_agents
  \/ \E a \in AgentDicts : PlannerAgentInit(a)
  \/ plan
  \/ plan_raises

SpecSetup == InitSetup /\ [][NextSetup]_vars

(***************************************************************************)
(* C21.  A plan call makes exactly one model call, calls no run_task and   *)
(* no tool function, and leaves the planner's agents and tools as they     *)
(* were.                                                                   *)
(***************************************************************************)
C21_PlanOnlyAdvises ==
  [][ (planner_pc = "ready" /\ planner_pc' # "ready")
        => /\ modelCalls' = modelCalls + 1
           /\ executed' = executed
           /\ executed' = << >>
           /\ plannerAgents' = plannerAgents
           /\ plannerTools' = plannerTools ]_vars

C21_Witness ==
  /\ planner_pc = "returned"
  /\ steps = << TxtA >>
  /\ DOMAIN plannerAgents = {NameBrowser}
  /\ Len(plannerTools) = 2
  /\ modelCalls = 1
  /\ executed = << >>

(***************************************************************************)
(* C26.  For every agent and every tool that declares no description, the  *)
(* description put in the planner's prompt is "No documentation            *)
(* available.".                                                            *)
(***************************************************************************)
C26_GenericDescription ==
  planner_pc = "returned"
    => /\ \A n \in DOMAIN plannerAgents :
            plannerAgents[n].doc = PyNone => docs.agents[n] = TxtNoDoc
       /\ \A i \in 1..Len(plannerTools) :
            (/\ plannerTools[i].doc = PyNone
             /\ \A j \in (i + 1)..Len(plannerTools) :
                  plannerTools[j].name # plannerTools[i].name)
              => docs.tools[plannerTools[i].name] = TxtNoDoc

(***************************************************************************)
(* C30.  After build_tools_and_agents the planner's view of the agents is  *)
(* the registry without the planner itself, and the registry holds         *)
(* browser_agent and planner_agent.                                        *)
(***************************************************************************)
C30_PlannerViewExcludesSelf ==
  factoryAgents # EmptyDict
    => /\ {NameBrowser, NamePlanner} \subseteq DOMAIN factoryAgents
       /\ NamePlanner \notin DOMAIN plannerAgents
       /\ DOMAIN plannerAgents = DOMAIN factoryAgents \ {NamePlanner}
       /\ \A n \in DOMAIN plannerAgents : plannerAgents[n] = factoryAgents[n]

C30_Witness ==
  /\ planner_pc = "returned"
  /\ DOMAIN factoryAgents = {NameBrowser, NamePlanner}
  /\ DOMAIN plannerAgents = {NameBrowser}
  /\ DOMAIN docs.agents = {NameBrowser}

(***************************************************************************)
(* The front ends.  One inbound text message is handed to the handler of   *)
(* its front end, which runs the assistant on it and sends the reply.      *)
(***************************************************************************)
Adapters == {"telegram", "whatsapp", "cli"}

InitFrontMessage ==
  /\ adapter \in Adapters
  /\ handler_pc = "idle"
  /\ replies = << >>

InitFront ==
  /\ InitAssistant /\ InitBot /\ InitBrowserIdle /\ InitPlannerIdle
  /\ InitFrontMessage /\ InitUtilityIdle

\* the handler is entered with a message that has text
Deliver ==
  /\ handler_pc = "idle"
  /\ handler_pc' = "running"
  /\ UNCHANGED << adapter, replies >>
  /\ UNCHANGED << assistantVars, botVars, browserVars, plannerVars,
                  utilityVars >>

\* the reply the handler sends when run returned
Answer == [kind |-> "answer", text |-> result]

\* the reply the handler sends when run raised
ErrorText == [kind |-> "error", text |-> << >>]

\* handlers.handle_message: try: reply_text(await run(...)) except: reply_text(error)
TelegramFinish ==
  /\ adapter = "telegram"
  /\ handler_pc = "running"
  /\ pc \in {"done", "exhausted", "failed"}
  /\ replies' = Append(replies, IF pc = "failed" THEN ErrorText ELSE Answer)
  /\ handler_pc' = "ended"
  /\ UNCHANGED adapter
  /\ UNCHANGED << assistantVars, botVars, browserVars, plannerVars,
                  utilityVars >>

\* WhatsAppBot.handle_message: response = run_until_complete(run(text));
\* send_message(sender, response), with no try around either
WhatsAppFinish ==
  /\ adapter = "whatsapp"
  /\ handler_pc = "running"
  /\ pc \in {"done", "exhausted", "failed"}
  /\ IF pc = "failed"
     THEN /\ replies' = replies
          /\ handler_pc' = "raised"
     ELSE /\ replies' = Append(replies, Answer)
          /\ handler_pc' = "ended"
  /\ UNCHANGED adapter
  /\ UNCHANGED << assistantVars, botVars, browserVars, plannerVars,
                  utilityVars >>

\* main: try: print(await run(...)) except: print(error)
CliFinish ==
  /\ adapter = "cli"
  /\ handler_pc = "running"
  /\ pc \in {"done", "exhausted", "failed"}
  /\ replies' = Append(replies, IF pc = "failed" THEN ErrorText ELSE Answer)
  /\ handler_pc' = "ended"
  /\ UNCHANGED adapter
  /\ UNCHANGED << assistantVars, botVars, browserVars, plannerVars,
                  utilityVars >>

NextFront ==
  \/ Deliver
  \/ handler_pc = "running" /\ \E u \in UserInputs : StartRun(u, 1)
  \/ CallService
  \/ pc = "await" /\ \E out \in ServiceOutputs : ServiceReply(out)
  \/ ServiceFail
  \/ TelegramFinish
  \/ WhatsAppFinish
  \/ CliFinish

SpecFront == InitFront /\ [][NextFront]_vars

(***************************************************************************)
(* C22.  When the handler of a front end has finished with a message, the  *)
(* user has been sent exactly one reply: the answer when run returned, an  *)
(* error text when run raised.                                             *)
(***************************************************************************)
C22_ExactlyOneReply ==
  handler_pc \in {"ended", "raised"}
    => /\ Len(replies) = 1
       /\ replies[1].kind = IF pc = "failed" THEN "error" ELSE "answer"

(***************************************************************************)
(* CalendarTool.create_event_simple.  Each invocation queries the          *)
(* free/busy service for its interval and, when nothing is busy, inserts   *)
(* its event; query and insert are two requests to the calendar service.   *)
(***************************************************************************)
Hours == 0..(MaxHour - 1)

\* start_dt, end_dt: an end before the start is moved to the next day
EventEnd(start_hour, end_hour) ==
  IF end_hour < start_hour THEN end_hour + MaxHour ELSE end_hour

\* the requests an invocation can be made with (intervals of positive length)
NewRequests ==
  { [pc |-> "start", start |-> h[1], end |-> EventEnd(h[1], h[2]),
     status |-> "none"] :
      h \in { g \in Hours \X Hours : g[1] # g[2] } }

\* two intervals share time
Overlap(s1, e1, s2, e2) == s1 < e2 /\ s2 < e1

\* freebusy.query(timeMin, timeMax): the busy periods within the interval
Busy(start, end) == { ev \in events : Overlap(ev[2], ev[3], start, end) }

InitCalendarFree ==
  /\ events = {}
  /\ requests \in [1..MaxRequests -> NewRequests]

InitCalendar ==
  /\ InitAssistant /\ InitBot /\ InitBrowserIdle /\ InitPlannerIdle
  /\ InitFrontIdle
  /\ InitCalendarFree /\ InitKnowledgeEmpty /\ InitChunkIdle

\* the free/busy query of invocation i and the `if conflicts:` that follows
QueryFreeBusy(i) ==
  /\ requests[i].pc = "start"
  /\ requests' =
       [requests EXCEPT
          ![i] = IF Busy(requests[i].start, requests[i].end) # {}
                 THEN [@ EXCEPT !.pc = "returned", !.status = "conflict"]
                 ELSE [@ EXCEPT !.pc = "free"]]
  /\ UNCHANGED events
  /\ UNCHANGED << assistantVars, botVars, browserVars, plannerVars, frontVars,
                  knowledgeVars, chunkVars >>

\* events().insert(...).execute() of invocation i
InsertEvent(i) ==
  /\ requests[i].pc = "free"
  /\ events' = events \cup { << i, requests[i].start, requests[i].end >> }
  /\ requests' = [requests EXCEPT ![i].pc = "returned", ![i].status = "created"]
  /\ UNCHANGED << assistantVars, botVars, browserVars, plannerVars, frontVars,
                  knowledgeVars, chunkVars >>

\* a request to the service raises: except Exception returns status 'error'
CalendarError(i) ==
  /\ requests[i].pc \in {"start", "free"}
  /\ requests' = [requests EXCEPT ![i].pc = "returned", ![i].status = "error"]
  /\ UNCHANGED events
  /\ UNCHANGED << assistantVars, botVars, browserVars, plannerVars, frontVars,
                  knowledgeVars, chunkVars >>

NextCalendar ==
  \/ \E i \in 1..MaxRequests : QueryFreeBusy(i)
  \/ \E i \in 1..MaxRequests : InsertEvent(i)
  \/ \E i \in 1..MaxRequests : CalendarError(i)

SpecCalendar == InitCalendar /\ [][NextCalendar]_vars

(***************************************************************************)
(* C27.  create_event_simple never double-books: no two events of the      *)
(* calendar share time, an invocation that returned 'conflict' inserted    *)
(* nothing, and of invocations with overlapping intervals on a free        *)
(* calendar at most one inserted an event.                                 *)
(***************************************************************************)
C27_NoDoubleBooking ==
  /\ \A e1 \in events : \A e2 \in events :
       e1 # e2 => ~Overlap(e1[2], e1[3], e2[2], e2[3])
  /\ \A i \in 1..MaxRequests :
       requests[i].status = "conflict" => \A ev \in events : ev[1] # i

(***************************************************************************)
(* KnowledgeBase.upsert_knowledge.  The collection is a dict from point id *)
(* to payload.  Two contents are similar when they are about the same      *)
(* topic; hash() of a string is any id of the id space.                    *)
(***************************************************************************)
PointIds == 0..(MaxIds - 1)

Topics == {"x", "y"}

\* the ids of the stored points find_similar_knowledge can return for a topic
SimilarPoints(topic) == { id \in DOMAIN points : points[id].topic = topic }

\* client.upsert(points=[point]): the point is written under its id
WritePoint(coll, id, payload) ==
  [k \in DOMAIN coll \cup {id} |-> IF k = id THEN payload ELSE coll[k]]

\* the merge branch: _update_knowledge(similar_item.id, ...) writes the merged
\* content under abs(hash(id)) % (2**63 - 1), id being the string of the point id
MergeKnowledge(topic) ==
  /\ SimilarPoints(topic) # {}
  /\ \E sid \in SimilarPoints(topic) : \E h \in PointIds :
       /\ points[sid].pieces <= MaxMerges
       /\ points' = WritePoint(points, h,
                               [topic |-> topic,
                                pieces |-> points[sid].pieces + 1])
       /\ lastUpsert' = [branch |-> "merge", similar |-> sid, written |-> h,
                         before |-> Cardinality(DOMAIN points)]

\* the insert branch: _insert_knowledge writes under int(hash(content_hash))
InsertKnowledge(topic) ==
  /\ SimilarPoints(topic) = {}
  /\ \E h \in PointIds :
       /\ points' = WritePoint(points, h, [topic |-> topic, pieces |-> 1])
       /\ lastUpsert' = [branch |-> "insert", similar |-> h, written |-> h,
                         before |-> Cardinality(DOMAIN points)]

\* upsert_knowledge(title, content, metadata)
upsert_knowledge(topic) ==
  /\ MergeKnowledge(topic) \/ InsertKnowledge(topic)
  /\ UNCHANGED << assistantVars, botVars, browserVars, plannerVars, frontVars,
                  calendarVars, chunkVars >>

InitKnowledge ==
  /\ InitAssistant /\ InitBot /\ InitBrowserIdle /\ InitPlannerIdle
  /\ InitFrontIdle
  /\ InitCalendarIdle /\ InitKnowledgeEmpty /\ InitChunkIdle

NextKnowledge == \E topic \in Topics : upsert_knowledge(topic)

SpecKnowledge == InitKnowledge /\ [][NextKnowledge]_vars

(***************************************************************************)
(* C28.  Merge-on-upsert updates in place: when upsert_knowledge found a   *)
(* similar item, the merged content was written to the point of that item  *)
(* and the number of points of the collection is what it was before the    *)
(* call.                                                                   *)
(***************************************************************************)
C28_MergeInPlace ==
  lastUpsert.branch = "merge"
    => /\ lastUpsert.written = lastUpsert.similar
       /\ Cardinality(DOMAIN points) = lastUpsert.before

(***************************************************************************)
(* SemanticChunker._fixed_size_chunking.  The text is its tokens 0..n-1;   *)
(* a chunk is the sequence of the token indices it holds.                   *)
(***************************************************************************)
\* tokens[a:b] of a list of n tokens, as indices
TokenSlice(a, b, n) ==
  LET to == IF b < n THEN b ELSE n
  IN  IF a >= to THEN << >> ELSE [j \in 1..(to - a) |-> a + j - 1]

\* range(0, n, step)
RangeStarts(n, step) == { i \in 0..(n - 1) : i % step = 0 }

\* the chunks appended by the loop, in order
FixedSizeChunks(n, size, ov) ==
  LET step == size - ov
      count == Cardinality(RangeStarts(n, step))
  IN  [k \in 1..count |->
         LET i == (k - 1) * step
             chunk_start == IF i - ov > 0 THEN i - ov ELSE 0
             chunk_end == i + size
         IN  TokenSlice(chunk_start, chunk_end, n)]

\* a chunker with 0 <= overlap < chunk_size and a text of up to MaxTokens tokens
InitChunkTask ==
  /\ chunk_pc = "ready"
  /\ tokenCount \in 0..MaxTokens
  /\ chunk_size \in 1..MaxChunk
  /\ overlap \in 0..(chunk_size - 1)
  /\ chunks = << >>

InitChunking ==
  /\ InitAssistant /\ InitBot /\ InitBrowserIdle /\ InitPlannerIdle
  /\ InitFrontIdle
  /\ InitCalendarIdle /\ InitKnowledgeEmpty /\ InitChunkTask

\* _fixed_size_chunking(text)
fixed_size_chunking ==
  /\ chunk_pc = "ready"
  /\ chunk_pc' = "returned"
  /\ chunks' = FixedSizeChunks(tokenCount, chunk_size, overlap)
  /\ UNCHANGED << tokenCount, chunk_size, overlap >>
  /\ UNCHANGED << assistantVars, botVars, browserVars, plannerVars, frontVars,
                  calendarVars, knowledgeVars >>

NextChunking == fixed_size_chunking

SpecChunking == InitChunking /\ [][NextChunking]_vars

\* the token indices a chunk holds
TokensOf(chunk) == { chunk[j] : j \in 1..Len(chunk) }

(***************************************************************************)
(* C29.  With 0 <= overlap < chunk_size, every token of the input lies in  *)
(* some chunk, no chunk holds more than chunk_size tokens, and two         *)
(* consecutive chunks share exactly `overlap` tokens.                      *)
(***************************************************************************)
C29_ChunkBounds ==
  chunk_pc = "returned"
    => /\ \A t \in 0..(tokenCount - 1) :
            \E k \in 1..Len(chunks) : t \in TokensOf(chunks[k])
       /\ \A k \in 1..Len(chunks) : Len(chunks[k]) <= chunk_size
       /\ \A k \in 1..(Len(chunks) - 1) :
            Cardinality(TokensOf(chunks[k]) \cap TokensOf(chunks[k + 1]))
              = overlap

=============================================================================
